---- MODULE Spec2Model ----
(***************************************************************************)
(* Model of pypager's PipeSource (src/pypager/source.py): the parser       *)
(* coroutine _parse_corot, the SGR resolver _select_graphic_rendition and  *)
(* read_chunk, which feeds one batch of characters and drains the tokens.  *)
(*                                                                         *)
(* Characters are strings: "BS" is '\b', "ESC" is '\x1b', "CSI" is '\x9b'; *)
(* every other character stands for itself.  A token style is a tuple as   *)
(* in prompt_toolkit: Token is the empty tuple, Token.Standout is          *)
(* <<"Standout">>, and ('C',) + attrs is <<"C", attrs>>.                   *)
(***************************************************************************)
EXTENDS Integers, Sequences, FiniteSets, TLC

VARIABLES
    pc,                 \* where the coroutine is suspended, or "Dead"
    token,              \* local `token` of _parse_corot
    replace_one_token,  \* local `replace_one_token`
    current,            \* local `current`: digits of the parameter in progress
    params,             \* local `params`
    _attrs,             \* self._attrs
    _line_tokens,       \* self._line_tokens (aliased by local line_tokens)
    _eof,               \* self._eof
    raised,             \* the exception the last read_chunk call raised
    stream,             \* history: every character read so far
    returned,           \* history: every token returned so far
    enqueued,           \* history: returned tokens, then the list before the drain
    boundaries,         \* history: pc at the end of each read_chunk call
    sgr_params,         \* resumed sequence: `params` when it was resumed
    sgr_current,        \* resumed sequence: `current` when it was resumed
    sgr_before          \* resumed sequence: self._attrs when it was resumed

vars == <<pc, token, replace_one_token, current, params, _attrs, _line_tokens,
          _eof, raised, stream, returned, enqueued, boundaries,
          sgr_params, sgr_current, sgr_before>>

histVars == <<stream, returned, enqueued, boundaries>>
sgrVars == <<sgr_params, sgr_current, sgr_before>>

-----------------------------------------------------------------------------
(* Bounds of the model. *)

MaxChunk == 3      \* characters read by one read_chunk call (Spec)
MaxDigits == 1     \* digits accumulated in `current` (Spec, SpecSplit)
MaxParams == 1     \* parameters completed by ';' in a sequence (Spec, SpecSplit)
MaxStream == 4     \* characters of a logged stream (SpecSplit)
MaxSgrLen == 3     \* parameters completed by ';' in a resumed sequence (SpecSGR)
                   \* (MaxSgrLen + 2 when it holds a truecolour colour)
MaxParamStream == 9  \* characters of a parameter sequence (SpecParams)

-----------------------------------------------------------------------------
(* Sequence helpers. *)

Last(s) == s[Len(s)]
Front(s) == SubSeq(s, 1, Len(s) - 1)

RECURSIVE Reverse(_)
Reverse(s) == IF s = <<>> THEN <<>> ELSE Append(Reverse(Tail(s)), Head(s))

Min(a, b) == IF a < b THEN a ELSE b

-----------------------------------------------------------------------------
(* Characters. *)

BS == "BS"
ESC == "ESC"
CSI == "CSI"

\* The characters the reader delivers in the model: an ordinary character,
\* the underscore, the three control characters, the four characters with a
\* meaning inside a CSI sequence.
Alphabet == {"a", "_", BS, ESC, CSI, "[", ";", "m", "3"}

IsDigit(c) == c \in {"0", "1", "2", "3", "4", "5", "6", "7", "8", "9"}

DigitVal(c) ==
    CASE c = "0" -> 0 [] c = "1" -> 1 [] c = "2" -> 2 [] c = "3" -> 3
      [] c = "4" -> 4 [] c = "5" -> 5 [] c = "6" -> 6 [] c = "7" -> 7
      [] c = "8" -> 8 [] c = "9" -> 9

\* int(current or 0)
RECURSIVE IntOf(_)
IntOf(cur) == IF cur = <<>> THEN 0 ELSE IntOf(Front(cur)) * 10 + DigitVal(Last(cur))

MaxParamValue == 9999

-----------------------------------------------------------------------------
(* Styles. *)

None == <<"None">>

DefaultAttrs ==
    [color |-> None, bgcolor |-> None, bold |-> FALSE, underline |-> FALSE,
     italic |-> FALSE, blink |-> FALSE, reverse |-> FALSE]

Token == <<>>
Standout == <<"Standout">>
Standout2 == <<"Standout2">>
CToken(a) == <<"C", a>>

\* _fg_colors / _bg_colors: SGR code -> colour name
FgCodes == (30..37) \cup (90..97)
BgCodes == (40..47) \cup (100..107)
_fg_colors(code) == <<"fg", code>>
_bg_colors(code) == <<"bg", code>>

\* _256_colors.get(1024 + m): the palette entry of index m, None on a miss
_256_colors(m) == IF m \in 0..255 THEN <<"palette", m>> ELSE None

\* '%02x' % n, as the sequence of its hexadecimal digits
RECURSIVE HexDigits(_)
HexDigits(n) == IF n < 16 THEN <<n>> ELSE Append(HexDigits(n \div 16), n % 16)
Hex02(n) == IF n < 16 THEN <<0, n>> ELSE HexDigits(n)

\* '%02x%02x%02x' % (r, g, b)
ColorStr(r, g, b) == <<"hex", Hex02(r) \o Hex02(g) \o Hex02(b)>>

-----------------------------------------------------------------------------
(* _select_graphic_rendition.  The loop state is                           *)
(*   attrs   : the reversed parameter list, popped from its end,           *)
(*   replace : the dict of overrides collected so far,                     *)
(*   self    : self._attrs (code 0 resets it inside the loop),             *)
(*   err     : "none", or the exception that left the function.            *)

EmptyDict == <<>>

\* replace[key] = val
Put(replace, key, val) ==
    [k \in (DOMAIN replace) \cup {key} |-> IF k = key THEN val ELSE replace[k]]

\* Faulty variant of NamedReplace: a new Attrs is built from `replace` alone,
\* an attribute that is not in it gets its default value.
NamedReplaceFresh(a, replace) ==
    LET get(k) == IF k \in DOMAIN replace THEN replace[k] ELSE DefaultAttrs[k]
    IN  [color |-> get("color"), bgcolor |-> get("bgcolor"), bold |-> get("bold"),
         underline |-> get("underline"), italic |-> get("italic"),
         blink |-> get("blink"), reverse |-> get("reverse")]

\* self._attrs._replace(**replace)
NamedReplace(a, replace) ==
    LET get(k) == IF k \in DOMAIN replace THEN replace[k] ELSE a[k]
    IN  [color |-> get("color"), bgcolor |-> get("bgcolor"), bold |-> get("bold"),
         underline |-> get("underline"), italic |-> get("italic"),
         blink |-> get("blink"), reverse |-> get("reverse")]

ColorKey(attr) == IF attr = 38 THEN "color" ELSE "bgcolor"

\* Faulty variant of Palette256: an index that is not in the table leaves
\* the colour as it is.
Palette256KeepOnMiss(attr, st) ==
    IF st.attrs = <<>>
    THEN [st EXCEPT !.err = "IndexError"]
    ELSE IF _256_colors(Last(st.attrs)) = None
    THEN [st EXCEPT !.attrs = Front(st.attrs)]
    ELSE [st EXCEPT !.attrs = Front(st.attrs),
                    !.replace = Put(st.replace, ColorKey(attr),
                                    _256_colors(Last(st.attrs)))]

\* lines 187-193: after `n = attrs.pop()` gave 5
Palette256(attr, st) ==
    IF st.attrs = <<>>
    THEN [st EXCEPT !.err = "IndexError"]
    ELSE [st EXCEPT !.attrs = Front(st.attrs),
                    !.replace = Put(st.replace, ColorKey(attr),
                                    _256_colors(Last(st.attrs)))]

\* Faulty variant of TrueColor: the IndexError of a failing pop is not caught.
TrueColorNoCatch(attr, st) ==
    IF Len(st.attrs) < 3
    THEN [st EXCEPT !.attrs = <<>>, !.err = "IndexError"]
    ELSE LET n == Len(st.attrs)
         IN  [st EXCEPT !.attrs = SubSeq(st.attrs, 1, n - 3),
                        !.replace = Put(st.replace, ColorKey(attr),
                                        ColorStr(st.attrs[n], st.attrs[n - 1],
                                                 st.attrs[n - 2]))]

\* lines 196-205: after `n = attrs.pop()` gave 2
TrueColor(attr, st) ==
    IF Len(st.attrs) < 3
    THEN \* a pop fails: IndexError is caught, the list has been emptied
         [st EXCEPT !.attrs = <<>>]
    ELSE LET n == Len(st.attrs)
         IN  [st EXCEPT !.attrs = SubSeq(st.attrs, 1, n - 3),
                        !.replace = Put(st.replace, ColorKey(attr),
                                        ColorStr(st.attrs[n], st.attrs[n - 1],
                                                 st.attrs[n - 2]))]

\* Faulty variant of ExtendedColor: the palette index is read at the end of
\* the list but not popped, so the loop meets it again as a code.
ExtendedColorPeek(attr, st) ==
    IF st.attrs = <<>>
    THEN [st EXCEPT !.err = "IndexError"]
    ELSE LET n == Last(st.attrs)
             st1 == [st EXCEPT !.attrs = Front(st.attrs)]
         IN  IF n = 5
             THEN IF st1.attrs = <<>>
                  THEN [st1 EXCEPT !.err = "IndexError"]
                  ELSE [st1 EXCEPT !.replace = Put(st.replace, ColorKey(attr),
                                                   _256_colors(Last(st1.attrs)))]
             ELSE IF n = 2 THEN TrueColor(attr, st1)
             ELSE st1

\* lines 183-205: attr in (38, 48), already popped
ExtendedColor(attr, st) ==
    IF st.attrs = <<>>
    THEN [st EXCEPT !.err = "IndexError"]
    ELSE LET n == Last(st.attrs)
             st1 == [st EXCEPT !.attrs = Front(st.attrs)]
         IN  IF n = 5 THEN Palette256(attr, st1)
             ELSE IF n = 2 THEN TrueColor(attr, st1)
             ELSE st1

\* lines 150-205: one iteration of `while attrs`
SgrStep(st) ==
    LET attr == Last(st.attrs)
        st1 == [st EXCEPT !.attrs = Front(st.attrs)]
        set(key, val) == [st1 EXCEPT !.replace = Put(st.replace, key, val)]
    IN  IF attr \in FgCodes THEN set("color", _fg_colors(attr))
        ELSE IF attr \in BgCodes THEN set("bgcolor", _bg_colors(attr))
        ELSE IF attr = 1 THEN set("bold", TRUE)
        ELSE IF attr = 3 THEN set("italic", TRUE)
        ELSE IF attr = 4 THEN set("underline", TRUE)
        ELSE IF attr = 5 THEN set("blink", TRUE)
        ELSE IF attr = 6 THEN set("blink", TRUE)
        ELSE IF attr = 7 THEN set("reverse", TRUE)
        ELSE IF attr = 22 THEN set("bold", FALSE)
        ELSE IF attr = 23 THEN set("italic", FALSE)
        ELSE IF attr = 24 THEN set("underline", FALSE)
        ELSE IF attr = 25 THEN set("blink", FALSE)
        ELSE IF attr = 27 THEN set("reverse", FALSE)
        ELSE IF attr = 0
             THEN [st1 EXCEPT !.replace = EmptyDict, !.self = DefaultAttrs]
        ELSE IF attr \in {38, 48} THEN ExtendedColor(attr, st1)
        ELSE st1

RECURSIVE SgrLoop(_)
SgrLoop(st) ==
    IF st.err # "none" \/ st.attrs = <<>> THEN st ELSE SgrLoop(SgrStep(st))

\* Faulty variant of _select_graphic_rendition: the list is not reversed
\* before it is popped from its end, so the parameters are applied from the
\* last to the first.
SelectGraphicRenditionBackwards(attrs, self_attrs) ==
    LET fin == SgrLoop([attrs |-> IF attrs = <<>> THEN <<0>> ELSE attrs,
                        replace |-> EmptyDict,
                        self |-> self_attrs,
                        err |-> "none"])
    IN  IF fin.err = "none"
        THEN [attrs |-> NamedReplace(fin.self, fin.replace), err |-> "none"]
        ELSE [attrs |-> fin.self, err |-> fin.err]

\* _select_graphic_rendition(attrs) called with self._attrs = self_attrs:
\* self._attrs afterwards, and the exception raised if any
_select_graphic_rendition(attrs, self_attrs) ==
    LET fin == SgrLoop([attrs |-> IF attrs = <<>> THEN <<0>> ELSE Reverse(attrs),
                        replace |-> EmptyDict,
                        self |-> self_attrs,
                        err |-> "none"])
    IN  IF fin.err = "none"
        THEN [attrs |-> NamedReplace(fin.self, fin.replace), err |-> "none"]
        ELSE [attrs |-> fin.self, err |-> fin.err]

-----------------------------------------------------------------------------
(* _parse_corot.  The coroutine is suspended at one of its three yields:   *)
(*   "Normal"      line 85,  c = yield                                     *)
(*   "AfterEscape" line 101, square_bracket = yield                        *)
(*   "InCSI"       line 114, char = yield                                  *)
(* or it is "Dead": an exception left the generator, which is finished.    *)
(* A parser state s is a record of the locals, self._attrs, the token list *)
(* and err, the exception the current send() raised ("none" if none).      *)

\* Faulty variant of Backspace: the overstruck character is not inspected.
BackspaceStandoutOnly(s) ==
    IF s.line_tokens # <<>>
    THEN [s EXCEPT !.line_tokens = Front(s.line_tokens),
                   !.replace_one_token = TRUE,
                   !.token = Standout]
    ELSE s

\* Faulty variant of Backspace: only the pop is guarded by `if line_tokens`,
\* the override is set also when there is no token to overstrike.
BackspaceAlwaysOverride(s) ==
    [s EXCEPT !.line_tokens = IF s.line_tokens # <<>> THEN Front(s.line_tokens)
                              ELSE <<>>,
              !.replace_one_token = TRUE,
              !.token = IF s.line_tokens # <<>> /\ Last(s.line_tokens)[2] = "_"
                        THEN Standout2 ELSE Standout]

\* lines 87-97: c == '\b'
Backspace(s) ==
    IF s.line_tokens # <<>>
    THEN LET last_char == Last(s.line_tokens)[2]
         IN  [s EXCEPT !.line_tokens = Front(s.line_tokens),
                       !.replace_one_token = TRUE,
                       !.token = IF last_char = "_" THEN Standout2 ELSE Standout]
    ELSE s

\* Faulty variant of Ordinary: the token is not put back after the append.
OrdinaryKeepToken(s, c) ==
    [s EXCEPT !.line_tokens = Append(s.line_tokens, <<s.token, c>>)]

\* lines 130-133: csi is False, c is appended with the current token
Ordinary(s, c) ==
    [s EXCEPT !.line_tokens = Append(s.line_tokens, <<s.token, c>>),
              !.token = IF s.replace_one_token THEN Token ELSE s.token]

\* lines 109-112: csi is True, the CSI loop is entered
EnterCSI(s) ==
    [s EXCEPT !.pc = "InCSI", !.current = <<>>, !.params = <<>>]

\* Faulty variant of AtNormal: there is no branch for '\x9b', which is
\* appended like any other character.
AtNormalNoC1(s, c) ==
    IF c = BS THEN Backspace(s)
    ELSE IF c = ESC THEN [s EXCEPT !.pc = "AfterEscape"]
    ELSE Ordinary(s, c)

\* lines 85-107 and 130-133: a character received at the top of the loop
AtNormal(s, c) ==
    IF c = BS THEN Backspace(s)
    ELSE IF c = ESC THEN [s EXCEPT !.pc = "AfterEscape"]
    ELSE IF c = CSI THEN EnterCSI(s)
    ELSE Ordinary(s, c)

\* Faulty variant of AtAfterEscape: the character after ESC that is no '['
\* falls through to the branch that appends it.
AtAfterEscapeEmit(s, c) ==
    IF c = "[" THEN EnterCSI(s) ELSE Ordinary([s EXCEPT !.pc = "Normal"], c)

\* lines 101-105: the character after ESC
AtAfterEscape(s, c) ==
    IF c = "[" THEN EnterCSI(s) ELSE [s EXCEPT !.pc = "Normal"]

\* Faulty variant of PushParam: the value is appended as it is, not clamped.
PushParamUnclamped(s) ==
    [s EXCEPT !.params = Append(s.params, IntOf(s.current))]

\* line 118: params.append(min(int(current or 0), 9999))
PushParam(s) ==
    [s EXCEPT !.params = Append(s.params, Min(IntOf(s.current), MaxParamValue))]

\* An exception e leaves the generator: it is finished and its frame, with
\* the locals, is gone (they are given their initial values here).
Raise(s, e) ==
    [s EXCEPT !.pc = "Dead", !.err = e, !.token = Token,
              !.replace_one_token = FALSE, !.current = <<>>, !.params = <<>>]

\* lines 121-125: char == 'm'
Finish(s) ==
    LET r == _select_graphic_rendition(s.params, s.attrs)
    IN  IF r.err = "none"
        THEN [s EXCEPT !.attrs = r.attrs, !.token = CToken(r.attrs),
                       !.pc = "Normal"]
        ELSE Raise([s EXCEPT !.attrs = r.attrs], r.err)

\* lines 126-129: any other terminator
Unsupported(s, char) == Raise(s, "Exception")

\* Faulty variant of AtInCSI: the parameters are applied to the style as soon
\* as each is completed, at ';' as well as at 'm'.
AtInCSIEager(s, char) ==
    IF IsDigit(char)
    THEN [s EXCEPT !.current = Append(s.current, char)]
    ELSE LET s1 == PushParam(s)
         IN  IF char = ";"
             THEN [s1 EXCEPT !.current = <<>>,
                             !.attrs = _select_graphic_rendition(s1.params,
                                                                 s.attrs).attrs]
             ELSE IF char = "m" THEN Finish(s1)
             ELSE Unsupported(s1, char)

\* lines 114-129: a character received inside the CSI loop
AtInCSI(s, char) ==
    IF IsDigit(char)
    THEN [s EXCEPT !.current = Append(s.current, char)]
    ELSE LET s1 == PushParam(s)
         IN  IF char = ";" THEN [s1 EXCEPT !.current = <<>>]
             ELSE IF char = "m" THEN Finish(s1)
             ELSE Unsupported(s1, char)

\* self._parser.send(c)
Send(s, c) ==
    IF s.pc = "Normal" THEN AtNormal(s, c)
    ELSE IF s.pc = "AfterEscape" THEN AtAfterEscape(s, c)
    ELSE IF s.pc = "InCSI" THEN AtInCSI(s, c)
    ELSE [s EXCEPT !.err = "StopIteration"]

\* lines 66-67: for c in data: self._parser.send(c)
RECURSIVE SendAll(_, _)
SendAll(s, d) ==
    IF d = <<>> \/ s.err # "none" THEN s ELSE SendAll(Send(s, Head(d)), Tail(d))

\* Faulty variant of Drain: the list is copied but not cleared.
DrainKeep(line_tokens) == [tokens |-> line_tokens, line_tokens |-> line_tokens]

\* lines 69-71: tokens = self._line_tokens[:]; del self._line_tokens[:]
Drain(line_tokens) == [tokens |-> line_tokens, line_tokens |-> <<>>]

\* The parser state after construction (lines 40-49, 79-85).
InitParser ==
    [pc |-> "Normal", token |-> Token, replace_one_token |-> FALSE,
     current |-> <<>>, params |-> <<>>, attrs |-> DefaultAttrs,
     line_tokens |-> <<>>, err |-> "none"]

\* Faulty variant of ReadChunkResult: every call starts the parser over at the top of
\* its loop instead of resuming it where the last call left it.
ReadChunkRestart(s, d) ==
    LET r == SendAll([s EXCEPT !.err = "none",
                               !.pc = IF s.pc = "Dead" THEN "Dead" ELSE "Normal"], d)
    IN  IF r.err = "none"
        THEN [state |-> [r EXCEPT !.line_tokens = <<>>], tokens |-> r.line_tokens]
        ELSE [state |-> r, tokens |-> <<>>]

\* read_chunk() on parser state s with the reader returning d:
\* the state afterwards and the value returned
ReadChunkResult(s, d) ==
    LET r == SendAll([s EXCEPT !.err = "none"], d)
    IN  IF r.err = "none"
        THEN [state |-> [r EXCEPT !.line_tokens = Drain(r.line_tokens).line_tokens],
              tokens |-> Drain(r.line_tokens).tokens]
        ELSE [state |-> r, tokens |-> <<>>]

-----------------------------------------------------------------------------
(* The model's bounds on what is read. *)

RECURSIVE SeqsUpTo(_, _)
SeqsUpTo(S, n) ==
    IF n = 0 THEN {<<>>}
    ELSE LET shorter == SeqsUpTo(S, n - 1)
         IN  shorter \cup {Append(q, x) : q \in shorter, x \in S}

Chunks == SeqsUpTo(Alphabet, MaxChunk)

Bounded(s) ==
    /\ Len(s.current) <= MaxDigits
    /\ Len(s.params) <= MaxParams + 1
    /\ s.pc = "InCSI" => Len(s.params) <= MaxParams

RECURSIVE InBounds(_, _)
InBounds(s, d) ==
    IF d = <<>> \/ s.err # "none" THEN TRUE
    ELSE LET s1 == Send(s, Head(d)) IN Bounded(s1) /\ InBounds(s1, Tail(d))

-----------------------------------------------------------------------------
(* The state machine. *)

Parser ==
    [pc |-> pc, token |-> token, replace_one_token |-> replace_one_token,
     current |-> current, params |-> params, attrs |-> _attrs,
     line_tokens |-> _line_tokens, err |-> "none"]

InitHistory ==
    /\ stream = <<>>
    /\ returned = <<>>
    /\ enqueued = <<>>
    /\ boundaries = <<>>

\* PipeSource.__init__
Init ==
    /\ pc = InitParser.pc
    /\ token = InitParser.token
    /\ replace_one_token = InitParser.replace_one_token
    /\ current = InitParser.current
    /\ params = InitParser.params
    /\ _attrs = InitParser.attrs
    /\ _line_tokens = InitParser.line_tokens
    /\ _eof = FALSE
    /\ raised = "none"
    /\ InitHistory
    /\ sgr_params = <<>>
    /\ sgr_current = <<>>
    /\ sgr_before = DefaultAttrs

\* PipeSource.read_chunk, the reader returning d
read_chunk(d) ==
    \E res \in {ReadChunkResult(Parser, d)} :
        /\ _eof' = (_eof \/ d = <<>>)
        /\ pc' = res.state.pc
        /\ token' = res.state.token
        /\ replace_one_token' = res.state.replace_one_token
        /\ current' = res.state.current
        /\ params' = res.state.params
        /\ _attrs' = res.state.attrs
        /\ _line_tokens' = res.state.line_tokens
        /\ raised' = res.state.err

\* The history of a read_chunk call.
Log(d) ==
    /\ stream' = stream \o d
    /\ returned' = returned \o ReadChunkResult(Parser, d).tokens
    /\ enqueued' = returned \o SendAll(Parser, d).line_tokens
    /\ boundaries' = Append(boundaries, pc')

\* read_chunk on any batch of at most MaxChunk characters.
ReadChunk ==
    \E d \in Chunks :
        /\ InBounds(Parser, d)
        /\ read_chunk(d)
        /\ UNCHANGED histVars
        /\ UNCHANGED sgrVars

Next == ReadChunk

Spec == Init /\ [][Next]_vars

-----------------------------------------------------------------------------
(* SpecSplit: a stream of at most MaxStream characters, delivered in any   *)
(* batches, with the history of what was read and returned.  An empty      *)
(* batch (end of input) is logged once.                                    *)

SplitAlphabet == {"a", BS, ESC, "[", CSI, "3", "m"}

ReadChunkLogged ==
    \E d \in SeqsUpTo(SplitAlphabet, MaxStream - Len(stream)) :
        /\ d = <<>> => ~_eof
        /\ InBounds(Parser, d)
        /\ read_chunk(d)
        /\ Log(d)
        /\ UNCHANGED sgrVars

NextSplit == ReadChunkLogged

SpecSplit == Init /\ [][NextSplit]_vars

-----------------------------------------------------------------------------
(* SpecSGR: the parser resumed inside a CSI sequence (suspended at line    *)
(* 114) whose parameters so far are any list over SgrCodes, or a shorter   *)
(* such list followed by 38 or 48, mode 2 and two or three components, and *)
(* whose digits in progress are any of SgrDigits, under any of             *)
(* StartStyles; the next batch ends the sequence with 'm' and holds the    *)
(* character after it.                                                     *)

SgrCodes == {0, 1, 2, 5, 22, 31, 38, 48}
SgrDigits ==
    {<<>>, <<"0">>, <<"2">>, <<"5">>, <<"1", "0">>, <<"3", "8">>, <<"4", "8">>,
     <<"2", "7">>, <<"9", "9">>, <<"2", "5", "6">>}

Components == {0, 1, 20}
TrueColorParams ==
    {pre \o <<a, 2>> \o rgb :
        pre \in SeqsUpTo(SgrCodes, MaxSgrLen - 3),
        a \in {38, 48},
        rgb \in SeqsUpTo(Components, 3) \ SeqsUpTo(Components, 1)}

Styled ==
    [color |-> _fg_colors(31), bgcolor |-> _bg_colors(44), bold |-> TRUE,
     underline |-> TRUE, italic |-> TRUE, blink |-> TRUE, reverse |-> TRUE]
StartStyles == {DefaultAttrs, Styled}

SgrChunks == {<<"m", "a">>}

InitSGR ==
    /\ pc = "InCSI"
    /\ params \in SeqsUpTo(SgrCodes, MaxSgrLen) \cup TrueColorParams
    /\ current \in SgrDigits
    /\ _attrs \in StartStyles
    /\ token = IF _attrs = DefaultAttrs THEN Token ELSE CToken(_attrs)
    /\ replace_one_token = FALSE
    /\ _line_tokens = <<>>
    /\ _eof = FALSE
    /\ raised = "none"
    /\ InitHistory
    /\ sgr_params = params
    /\ sgr_current = current
    /\ sgr_before = _attrs

ResumeCSI ==
    \E d \in SgrChunks :
        /\ pc = "InCSI"
        /\ read_chunk(d)
        /\ Log(d)
        /\ UNCHANGED sgrVars

NextSGR == ResumeCSI

SpecSGR == InitSGR /\ [][NextSGR]_vars

-----------------------------------------------------------------------------
(* SpecParams: one CSI sequence read a character at a time from the        *)
(* introducer on: digits, ';' and the final 'm', MaxParamStream characters *)
(* at most, so that a parameter can have more digits than 9999 has.        *)

ParamAlphabet == {"1", "9", ";", "m"}

ReadParamChar ==
    \E c \in ParamAlphabet \cup {CSI} :
        /\ Len(stream) < MaxParamStream
        /\ IF stream = <<>> THEN c = CSI ELSE (pc = "InCSI" /\ c # CSI)
        /\ read_chunk(<<c>>)
        /\ Log(<<c>>)
        /\ UNCHANGED sgrVars

NextParams == ReadParamChar

SpecParams == Init /\ [][NextParams]_vars

-----------------------------------------------------------------------------
(* Vocabulary of the properties. *)

Override == {Standout, Standout2}
HasBackspace(d) == \E i \in 1..Len(d) : d[i] = BS
OrdinaryChars == Alphabet \ {BS, ESC, CSI}

\* The attributes a token style stands for: Token is the default style.
StyleAttrs(t) == IF t = Token THEN DefaultAttrs ELSE t[2]

\* The characters of a token list.
Chars(toks) == [i \in 1..Len(toks) |-> toks[i][2]]

RECURSIVE IsSubseq(_, _)
IsSubseq(a, b) ==
    IF a = <<>> THEN TRUE
    ELSE IF b = <<>> THEN FALSE
    ELSE IF Head(a) = Head(b) THEN IsSubseq(Tail(a), Tail(b))
    ELSE IsSubseq(a, Tail(b))

\* The characters of a stream that belong to no escape sequence and are no
\* backspace: the text of the stream.  mode is "N" outside a sequence, "E"
\* after ESC, "C" after the sequence introducer.
RECURSIVE PlainText(_, _)
PlainText(mode, str) ==
    IF str = <<>> THEN <<>>
    ELSE LET c == Head(str)
             rest == Tail(str)
         IN  IF mode = "N"
             THEN IF c = ESC THEN PlainText("E", rest)
                  ELSE IF c = CSI THEN PlainText("C", rest)
                  ELSE IF c = BS THEN PlainText("N", rest)
                  ELSE <<c>> \o PlainText("N", rest)
             ELSE IF mode = "E"
             THEN PlainText(IF c = "[" THEN "C" ELSE "N", rest)
             ELSE IF IsDigit(c) \/ c = ";" THEN PlainText("C", rest)
             ELSE IF c = "m" THEN PlainText("N", rest)
             ELSE <<>>

-----------------------------------------------------------------------------
(* Properties of SpecSplit. *)

\* C1: however a stream is split into read_chunk calls, the tokens returned,
\* concatenated, are the tokens a single read_chunk call on the whole stream
\* returns.  (Stated for the runs in which no call raised.)
C1_SplitInvariance ==
    pc # "Dead" => returned = ReadChunkResult(InitParser, stream).tokens

\* C4: read_chunk returns the token list as it is at the end of the feed loop
\* and leaves it empty: what has been returned so far, followed by what is
\* still queued, is always what had been returned before the last call
\* followed by the list that call built (nothing twice, nothing lost); the
\* list is empty after every call that returned; and the characters of the
\* tokens are in the order in which they were read.
C4_DrainConservation ==
    /\ returned \o _line_tokens = enqueued
    /\ raised = "none" => _line_tokens = <<>>
    /\ IsSubseq(Chars(returned \o _line_tokens), stream)

\* C4 witness: two calls that each read one character and returned one token.
C4_Witness ==
    /\ Len(boundaries) = 2 /\ Len(stream) = 2 /\ ~_eof
    /\ Len(returned) = 2 /\ _line_tokens = <<>>
    /\ raised = "none"

\* C8: an escape sequence cut by the end of a read_chunk call is resumed by
\* the next call: the parser's position, the digits and parameters it has
\* accumulated and the style are those of a parser that read the stream in
\* one call, and no character of a sequence, complete or not, is in a token.
C8_SequenceResumed ==
    LET whole == SendAll(InitParser, stream)
    IN  pc # "Dead" =>
            /\ pc = whole.pc
            /\ current = whole.current
            /\ params = whole.params
            /\ _attrs = whole.attrs
            /\ IsSubseq(Chars(returned \o _line_tokens), PlainText("N", stream))

\* C8 witness: a call ended inside the parameters of a sequence; a later call
\* completed it, which set italic, and the character after it was returned
\* with that style.
C8_Witness ==
    /\ \E i \in 1..Len(boundaries) : boundaries[i] = "InCSI"
    /\ pc = "Normal" /\ _attrs.italic
    /\ params = <<3>>
    /\ returned = << <<CToken(_attrs), "a">> >>

\* The states a call can pass through before the character a property is
\* about: the parser between two calls, and the parser after one more
\* ordinary character of the same call (a token is queued).
Before == {Parser, Send(Parser, "a")}

\* C11: ESC received in Normal state and followed by a character other than
\* '[' is ignored.  In every reachable state in Normal, between two calls or
\* with a token queued, the parser after the two characters is the parser
\* before them: nothing is raised, no token is queued for either character,
\* the style, the token style and the override flag are unchanged, and the
\* parser is at the top of its loop (Normal) for the next character; a call
\* that reads the two characters returns nothing, and so do two calls that
\* read one each, the first leaving the parser after the ESC.
C11_EscapeIgnored ==
    /\ \A s \in Before :
           (s.pc = "Normal" /\ s.err = "none") =>
               \A mid \in {Send(s, ESC)} :
                   /\ mid = [s EXCEPT !.pc = "AfterEscape"]
                   /\ \A c \in SplitAlphabet \ {"["} : Send(mid, c) = s
    /\ pc = "Normal" =>
           \A first \in {ReadChunkResult(Parser, <<ESC>>)} :
               /\ first.tokens = <<>>
               /\ first.state.pc = "AfterEscape"
               /\ \A c \in SplitAlphabet \ {"["} :
                      /\ ReadChunkResult(first.state, <<c>>) =
                             [state |-> Parser, tokens |-> <<>>]
                      /\ ReadChunkResult(Parser, <<ESC, c>>) =
                             [state |-> Parser, tokens |-> <<>>]

\* C11 witness: a character was overstruck, then ESC and 'a' were read: no
\* token was returned and Standout is still pending, in Normal state.
C11_Witness ==
    /\ stream = <<"a", BS, ESC, "a">>
    /\ boundaries = <<"Normal", "AfterEscape", "Normal">>
    /\ pc = "Normal" /\ token = Standout /\ replace_one_token
    /\ returned = <<>> /\ _line_tokens = <<>> /\ raised = "none"

\* C12: a backspace received in Normal state with no token in the list
\* (nothing appended yet, or everything returned by an earlier call) changes
\* nothing: no exception, the list stays empty, and the style, the token style
\* and the override flag are as before; a call that reads it returns nothing.
C12_BackspaceOnEmpty ==
    (pc = "Normal" /\ _line_tokens = <<>>) =>
        /\ Send(Parser, BS) = Parser
        /\ ReadChunkResult(Parser, <<BS>>) = [state |-> Parser, tokens |-> <<>>]
        /\ ReadChunkResult(Parser, <<BS, "a">>).tokens = << <<token, "a">> >>

\* C12 witness: 'a' was read and returned by one call, the next call read a
\* backspace: no override is pending and the flag was never set.
C12_Witness ==
    /\ stream = <<"a", BS>>
    /\ boundaries = <<"Normal", "Normal">>
    /\ returned = << <<Token, "a">> >>
    /\ token = Token /\ ~replace_one_token
    /\ _line_tokens = <<>> /\ raised = "none"

\* The i-th character read by the call that made the step.
NewChar(i) == stream'[Len(stream) + i]
NewLen == Len(stream') - Len(stream)

\* The parser of the call that made the step, before its i-th character.
Upto(i) == SendAll(Parser, SubSeq(stream', Len(stream) + 1, Len(stream) + i - 1))

\* C13: self._attrs changes only when 'm' ends a CSI sequence.  In every
\* reachable state, between two calls or with a token queued, no single
\* character other than an 'm' received inside a CSI sequence changes it
\* (ordinary character, backspace, ESC, the character after ESC, the
\* introducer, a digit, ';', a character that makes the parser raise), and a
\* call that reads nothing leaves it; and a read_chunk call changes it only if
\* it read an 'm' inside a CSI sequence, every other character it read having
\* left the style as it found it.
C13_StyleOnlyByM ==
    /\ [](\A s \in Before :
             /\ \A c \in Alphabet :
                    Send(s, c).attrs # s.attrs => (c = "m" /\ s.pc = "InCSI")
             /\ ReadChunkResult(s, <<>>).state.attrs = s.attrs)
    /\ [][ /\ \A i \in 1..NewLen : \A s \in {Upto(i)} :
                  Send(s, NewChar(i)).attrs # s.attrs =>
                      (NewChar(i) = "m" /\ s.pc = "InCSI")
           /\ _attrs' = Upto(NewLen + 1).attrs
         ]_vars

\* C13 witness: italic was set by a sequence read by one call; the next call
\* read an ordinary character, returned it with that style, and italic is
\* still set.
C13_Witness ==
    /\ stream = <<CSI, "3", "m", "a">>
    /\ boundaries = <<"Normal", "Normal">>
    /\ _attrs = [DefaultAttrs EXCEPT !.italic = TRUE]
    /\ returned = << <<CToken(_attrs), "a">> >>

\* A stream in which every ESC '[' that starts in Normal state is replaced
\* by the single character '\x9b'.  mode is as for PlainText; after a
\* character that ends a sequence other than 'm' nothing is replaced.
RECURSIVE Contract(_, _)
Contract(mode, str) ==
    IF str = <<>> THEN <<>>
    ELSE LET c == Head(str)
             rest == Tail(str)
         IN  IF mode = "N"
             THEN IF c = ESC
                  THEN IF rest # <<>> /\ Head(rest) = "["
                       THEN <<CSI>> \o Contract("C", Tail(rest))
                       ELSE <<c>> \o Contract("E", rest)
                  ELSE <<c>> \o Contract(IF c = CSI THEN "C" ELSE "N", rest)
             ELSE IF mode = "E"
             THEN <<c>> \o Contract("N", rest)
             ELSE IF IsDigit(c) \/ c = ";" THEN <<c>> \o Contract("C", rest)
             ELSE IF c = "m" THEN <<c>> \o Contract("N", rest)
             ELSE str

\* C18: '\x9b' received in Normal state starts a CSI sequence as ESC '['
\* does.  In every reachable state in Normal, between two calls or with a
\* token queued, the parser after ESC '[' is the parser after '\x9b', inside
\* the sequence with no digits and no parameters; and the stream read so far
\* and the stream with every such ESC '[' replaced by '\x9b', each read from
\* construction by one call, give the same tokens, the same exception and the
\* same parser state.
C18_SingleCharCSI ==
    /\ \A s \in Before :
           (s.pc = "Normal" /\ s.err = "none") =>
               \A r \in {Send(s, CSI)} :
                   /\ SendAll(s, <<ESC, "[">>) = r
                   /\ r.pc = "InCSI" /\ r.current = <<>> /\ r.params = <<>>
    /\ ReadChunkResult(InitParser, Contract("N", stream)) =
           ReadChunkResult(InitParser, stream)

\* C18 witness: ESC [ 3 m was read by one call and set italic; with '\x9b'
\* the stream is one character shorter.
C18_Witness ==
    /\ stream = <<ESC, "[", "3", "m">>
    /\ Contract("N", stream) = <<CSI, "3", "m">>
    /\ Len(boundaries) = 1
    /\ pc = "Normal" /\ params = <<3>>
    /\ _attrs = [DefaultAttrs EXCEPT !.italic = TRUE]

\* A stream with a CSI sequence that is ended by a character other than 'm'.
RECURSIVE Malformed(_, _)
Malformed(mode, str) ==
    IF str = <<>> THEN FALSE
    ELSE LET c == Head(str)
             rest == Tail(str)
         IN  IF mode = "N"
             THEN Malformed(IF c = ESC THEN "E" ELSE IF c = CSI THEN "C" ELSE "N",
                            rest)
             ELSE IF mode = "E"
             THEN Malformed(IF c = "[" THEN "C" ELSE "N", rest)
             ELSE IF IsDigit(c) \/ c = ";" THEN Malformed("C", rest)
             ELSE IF c = "m" THEN Malformed("N", rest)
             ELSE TRUE

\* C19: for a stream with no backspace and no CSI sequence that makes the
\* parser raise, every split into read_chunk calls returns, concatenated, the
\* tokens one call on the whole stream returns, no call raises, and the
\* style and the position of the parser after the last call are those after
\* the one call.
C19_SplitInvarianceClean ==
    (~HasBackspace(stream) /\ ~Malformed("N", stream)) =>
        LET whole == ReadChunkResult(InitParser, stream)
        IN  /\ raised = "none" /\ whole.state.err = "none"
            /\ returned = whole.tokens
            /\ _attrs = whole.state.attrs
            /\ pc = whole.state.pc

\* C19 witness: ESC [ m a read in four calls of one character each.
C19_Witness ==
    /\ stream = <<ESC, "[", "m", "a">>
    /\ boundaries = <<"AfterEscape", "InCSI", "Normal", "Normal">>
    /\ returned = << <<CToken(DefaultAttrs), "a">> >>
    /\ raised = "none"

-----------------------------------------------------------------------------
(* Properties of Spec.  Every state of Spec is the parser between two      *)
(* read_chunk calls; a property about what a call does is stated for every *)
(* such state and every batch the call may read.                           *)

\* The number of tokens of a list that carry an override style.
RECURSIVE CountOverride(_)
CountOverride(toks) ==
    IF toks = <<>> THEN 0
    ELSE CountOverride(Tail(toks)) + (IF Head(toks)[1] \in Override THEN 1 ELSE 0)

\* C2: in Normal state with no override pending, an ordinary character is
\* returned as one token whose style is the persistent style self._attrs.
C2_PersistentStyle ==
    (pc = "Normal" /\ token \notin Override) =>
        \A c \in OrdinaryChars :
            LET out == ReadChunkResult(Parser, <<c>>).tokens
            IN  /\ Len(out) = 1
                /\ out[1][2] = c
                /\ StyleAttrs(out[1][1]) = _attrs

\* C3: a character that is no digit, ';' or 'm' inside a CSI sequence raises
\* nothing, leaves the parser in Normal state, and the character read after
\* it is returned as a token.
C3_MalformedRecovered ==
    pc = "InCSI" =>
        \A c \in Alphabet \ {";", "m", "3"} :
            LET r == ReadChunkResult(Parser, <<c>>)
                r2 == ReadChunkResult(r.state, <<"a">>)
            IN  /\ r.state.err = "none"
                /\ r.state.pc = "Normal"
                /\ r2.state.err = "none"
                /\ Len(r2.tokens) = 1

\* C5: a backspace received in Normal state with a token in the list removes
\* the last token only and sets the override by the removed character,
\* Standout2 for '_' and Standout otherwise; X, backspace, Y read in one call
\* return the single token (override, Y).
C5_Overstrike ==
    pc # "Dead" =>
        /\ \A d \in Chunks :
               LET s == SendAll(Parser, d)
               IN  (s.err = "none" /\ s.pc = "Normal" /\ s.line_tokens # <<>>) =>
                       LET after == Send(s, BS)
                           removed == Last(s.line_tokens)[2]
                       IN  /\ after.line_tokens = Front(s.line_tokens)
                           /\ after.token =
                                  IF removed = "_" THEN Standout2 ELSE Standout
                           /\ after.replace_one_token
                           /\ after.pc = "Normal" /\ after.err = "none"
                           /\ after.attrs = s.attrs
        /\ pc = "Normal" =>
               \A X, Y \in OrdinaryChars :
                   ReadChunkResult(Parser, <<X, BS, Y>>).tokens =
                       << <<IF X = "_" THEN Standout2 ELSE Standout, Y>> >>

\* C5 witness: an underscore was overstruck, Standout2 is pending.
C5_Witness ==
    /\ pc = "Normal" /\ token = Standout2 /\ replace_one_token
    /\ _line_tokens = <<>> /\ raised = "none"

\* C6: an override set by a backspace is carried by the next token returned,
\* whatever is read in between that makes no token, a complete SGR sequence
\* included.
C6_OverrideSurvivesSGR ==
    (pc = "Normal" /\ token \in Override) =>
        \A between \in {<<>>, <<ESC, "a">>, <<CSI, "m">>, <<ESC, "[", "m">>} :
            \A c \in OrdinaryChars :
                ReadChunkResult(Parser, between \o <<c>>).tokens = << <<token, c>> >>

-----------------------------------------------------------------------------
(* Properties of SpecSGR. *)

\* The parameter list handed to _select_graphic_rendition when 'm' ends the
\* resumed sequence.
SgrList == Append(sgr_params, Min(IntOf(sgr_current), MaxParamValue))

EndedByM == stream # <<>> /\ stream[1] = "m"

NoExtended(l) == \A i \in 1..Len(l) : l[i] \notin {38, 48}

\* 38 or 48, mode 2, and fewer than three components
TruncatedTrueColor(l) ==
    /\ Len(l) \in 2..4
    /\ l[1] \in {38, 48}
    /\ l[2] = 2

\* 38 or 48 without the parameters its mode needs
TruncatedExtended(l) ==
    \/ l \in {<<38>>, <<48>>, <<38, 5>>, <<48, 5>>}
    \/ TruncatedTrueColor(l)

\* The positions of a parameter list whose value is a code of its own, not
\* an argument of a 38 or 48 before it: 38 and 48 take the next parameter as
\* their mode, mode 5 one more, mode 2 three more.
RECURSIVE StandaloneFrom(_, _)
StandaloneFrom(l, i) ==
    IF i > Len(l) THEN {}
    ELSE {i} \cup
         (IF l[i] \notin {38, 48} THEN StandaloneFrom(l, i + 1)
          ELSE IF i + 1 > Len(l) THEN {}
          ELSE IF l[i + 1] = 5 THEN StandaloneFrom(l, i + 3)
          ELSE IF l[i + 1] = 2 THEN StandaloneFrom(l, i + 5)
          ELSE StandaloneFrom(l, i + 2))

Standalone(l) == StandaloneFrom(l, 1)

\* C9: an SGR sequence in which 38 or 48 lacks the parameters its mode needs
\* raises nothing, leaves both colours as they were, and leaves the parser in
\* Normal state.
C9_TruncatedExtended ==
    (EndedByM /\ TruncatedExtended(SgrList)) =>
        /\ raised = "none"
        /\ pc = "Normal"
        /\ _attrs.color = sgr_before.color
        /\ _attrs.bgcolor = sgr_before.bgcolor

\* C10: 38 or 48 followed by mode 2 and fewer than three components at the
\* end of the list raises nothing and changes nothing: the style is the one
\* left by the parameters before it (the style before the call if there are
\* none), and the character read after the sequence is returned with it.
C10_TruncatedTrueColor ==
    EndedByM =>
        \A k \in 0..Len(SgrList) :
            LET pre == SubSeq(SgrList, 1, k)
                rest == SubSeq(SgrList, k + 1, Len(SgrList))
            IN  (NoExtended(pre) /\ TruncatedTrueColor(rest)) =>
                    /\ raised = "none"
                    /\ pc = "Normal"
                    /\ _attrs = IF k = 0 THEN sgr_before
                                ELSE _select_graphic_rendition(pre, sgr_before).attrs
                    /\ k = 0 => /\ _attrs.color = sgr_before.color
                                /\ _attrs.bgcolor = sgr_before.bgcolor
                    /\ Len(stream) = 2 =>
                           returned = << <<CToken(_attrs), stream[2]>> >>

\* C10 witness: 38;2;10m read under a non-default style, then a character.
C10_Witness ==
    /\ sgr_params = <<38, 2>> /\ sgr_current = <<"1", "0">>
    /\ sgr_before = Styled
    /\ stream = <<"m", "a">>
    /\ returned = << <<CToken(Styled), "a">> >>

\* C14: the parameters are applied from left to right and a 0 that is a code
\* of its own resets everything at its position: the style after the call,
\* and the exception if one is raised, are those of the parameters after the
\* 0 applied to the default style, whatever the style before the call and the
\* parameters before the 0.  The empty list is treated as [0]; ESC [ m and
\* ESC [ 0 m hand [0] to the resolver, and the character read after them is
\* returned with all attributes default.
C14_ResetAtPosition ==
    /\ _select_graphic_rendition(<<>>, sgr_before) =
           _select_graphic_rendition(<<0>>, sgr_before)
    /\ EndedByM =>
           /\ \A k \in Standalone(SgrList) :
                  SgrList[k] = 0 =>
                      LET after == _select_graphic_rendition(
                                       SubSeq(SgrList, k + 1, Len(SgrList)),
                                       DefaultAttrs)
                      IN  _attrs = after.attrs /\ raised = after.err
           /\ (sgr_params = <<>> /\ sgr_current \in {<<>>, <<"0">>}) =>
                  /\ params = <<0>>
                  /\ _attrs = DefaultAttrs
                  /\ Len(stream) = 2 =>
                         /\ Len(returned) = 1
                         /\ StyleAttrs(returned[1][1]) = DefaultAttrs

\* C14 witness: 1;0;5 m read under a style with colours and every boolean
\* attribute set: only blink is set afterwards, and the next character is
\* returned so.
C14_Witness ==
    /\ sgr_before = Styled
    /\ sgr_params = <<1, 0>> /\ sgr_current = <<"5">>
    /\ stream = <<"m", "a">>
    /\ _attrs = [DefaultAttrs EXCEPT !.blink = TRUE]
    /\ returned = << <<CToken(_attrs), "a">> >>

Booleans == {"bold", "italic", "underline", "blink", "reverse"}

OffCode(b) ==
    CASE b = "bold" -> 22 [] b = "italic" -> 23 [] b = "underline" -> 24
      [] b = "blink" -> 25 [] b = "reverse" -> 27

\* C15: a boolean attribute that is set before an SGR sequence is applied is
\* clear after it only if the parameter list has, as a code of its own, the
\* off code of that attribute or 0; and a list of one parameter that is
\* neither (a colour code, the unknown code 99, the on or off code of another
\* attribute) leaves every boolean attribute that was set as it was.
C15_ClearedOnlyByOffCode ==
    EndedByM =>
        \A b \in Booleans :
            sgr_before[b] =>
                /\ ~_attrs[b] =>
                       \E k \in Standalone(SgrList) : SgrList[k] \in {0, OffCode(b)}
                /\ (Len(SgrList) = 1 /\ SgrList[1] \notin {0, OffCode(b)}) =>
                       _attrs[b]

\* C15 witness: 1;22;99 m read with every boolean attribute set: bold is
\* cleared by its off code 22, the others are still set, the colours are kept.
C15_Witness ==
    /\ sgr_before = Styled
    /\ sgr_params = <<1, 22>> /\ sgr_current = <<"9", "9">>
    /\ stream = <<"m", "a">>
    /\ _attrs = [Styled EXCEPT !.bold = FALSE]
    /\ raised = "none"

\* C16: the parameters after 38 or 48 are its arguments and nothing else.
\* For a list made of parameters without 38/48, then 38;5;N, 48;5;N,
\* 38;2;R;G;B or 48;2;R;G;B, then parameters without 38/48, nothing is
\* raised and the style afterwards is: the style left by the parameters
\* before, with the one colour replaced (by the palette entry of N, or the
\* hexadecimal string of R, G, B), to which the parameters after are then
\* applied.  So the mode and the values set no attribute and reset nothing
\* (38;5;1 alone leaves bold, 38;5;0 alone resets nothing), and what follows
\* them is applied as usual.
C16_ArgumentsConsumed ==
    EndedByM =>
        \A k \in 0..Len(SgrList) : \A n \in {3, 5} :
            k + n <= Len(SgrList) =>
                LET pre == SubSeq(SgrList, 1, k)
                    unit == SubSeq(SgrList, k + 1, k + n)
                    post == SubSeq(SgrList, k + n + 1, Len(SgrList))
                IN  ( /\ NoExtended(pre) /\ NoExtended(post)
                      /\ unit[1] \in {38, 48}
                      /\ unit[2] = (IF n = 3 THEN 5 ELSE 2) ) =>
                        LET base == IF k = 0 THEN sgr_before
                                    ELSE _select_graphic_rendition(pre, sgr_before).attrs
                            colour == IF n = 3 THEN _256_colors(unit[3])
                                      ELSE ColorStr(unit[3], unit[4], unit[5])
                            coloured == IF unit[1] = 38
                                        THEN [base EXCEPT !.color = colour]
                                        ELSE [base EXCEPT !.bgcolor = colour]
                        IN  /\ raised = "none" /\ pc = "Normal"
                            /\ _attrs = IF post = <<>> THEN coloured
                                        ELSE _select_graphic_rendition(post, coloured).attrs

\* C16 witness: 38;2;1;20;10 m read under the default style: the foreground
\* is 01140a and bold, which the component 1 would set as a code, is clear.
C16_Witness ==
    /\ sgr_before = DefaultAttrs
    /\ sgr_params = <<38, 2, 1, 20>> /\ sgr_current = <<"1", "0">>
    /\ stream = <<"m", "a">>
    /\ _attrs = [DefaultAttrs EXCEPT !.color = <<"hex", <<0, 1, 1, 4, 0, 10>> >>]
    /\ returned = << <<CToken(_attrs), "a">> >>

\* C20: 38;5;N (48;5;N) at the end of a list, after parameters without 38/48,
\* raises nothing and sets the foreground (background) to the palette entry
\* of N when N is in 0..255 and to None when it is not, whatever the colour
\* was; the other colour and the boolean attributes are those left by the
\* parameters before it (those before the call if there are none).
C20_PaletteIndex ==
    EndedByM =>
        \A k \in 0..Len(SgrList) :
            LET pre == SubSeq(SgrList, 1, k)
                rest == SubSeq(SgrList, k + 1, Len(SgrList))
            IN  ( /\ NoExtended(pre) /\ Len(rest) = 3
                  /\ rest[1] \in {38, 48} /\ rest[2] = 5 ) =>
                    LET N == rest[3]
                        base == IF k = 0 THEN sgr_before
                                ELSE _select_graphic_rendition(pre, sgr_before).attrs
                        colour == IF N \in 0..255 THEN <<"palette", N>> ELSE None
                    IN  /\ raised = "none" /\ pc = "Normal"
                        /\ _attrs = IF rest[1] = 38
                                    THEN [base EXCEPT !.color = colour]
                                    ELSE [base EXCEPT !.bgcolor = colour]

\* C20 witness: 38;5;256 m read under a style with a red foreground: the
\* foreground is None afterwards, the rest of the style is kept, and the next
\* character is returned so.
C20_Witness ==
    /\ sgr_before = Styled
    /\ sgr_params = <<38, 5>> /\ sgr_current = <<"2", "5", "6">>
    /\ stream = <<"m", "a">>
    /\ _attrs = [Styled EXCEPT !.color = None]
    /\ returned = << <<CToken(_attrs), "a">> >>

-----------------------------------------------------------------------------
(* Properties of SpecParams. *)

\* The fields of a parameter text: the digit strings between its ';'.
RECURSIVE SplitFields(_, _)
SplitFields(text, field) ==
    IF text = <<>> THEN <<field>>
    ELSE IF Head(text) = ";" THEN <<field>> \o SplitFields(Tail(text), <<>>)
    ELSE SplitFields(Tail(text), Append(field, Head(text)))

Fields(text) == SplitFields(text, <<>>)

RECURSIVE Pow10(_)
Pow10(n) == IF n = 0 THEN 1 ELSE 10 * Pow10(n - 1)

\* The number a digit string denotes in decimal, 0 for the empty string.
RECURSIVE Decimal(_)
Decimal(ds) ==
    IF ds = <<>> THEN 0
    ELSE DigitVal(Head(ds)) * Pow10(Len(ds) - 1) + Decimal(Tail(ds))

Clamped(fs) == [i \in 1..Len(fs) |-> Min(Decimal(fs[i]), 9999)]

\* C17: every parameter is an integer in 0..9999.  Inside the sequence the
\* parameters completed so far are the decimal values, at most 9999, of the
\* digit strings between the ';' read so far, and the digits in progress are
\* those read since the last ';' (none right after it); when 'm' ends the
\* sequence the list handed to the resolver is that of all the fields, the
\* last one included, 0 for an empty field.
C17_ParamsClamped ==
    /\ \A i \in 1..Len(params) : params[i] \in 0..9999
    /\ raised = "none"
    /\ (stream # <<>> /\ pc = "InCSI") =>
           LET fs == Fields(Tail(stream))
           IN  /\ params = Clamped(Front(fs))
               /\ current = Last(fs)
    /\ (stream # <<>> /\ pc = "Normal") =>
           /\ Last(stream) = "m"
           /\ params = Clamped(Fields(Front(Tail(stream))))

\* C17 witness: 19999;1 m was read: the parameters are 9999 and 1, and bold
\* is set.
C17_Witness ==
    /\ stream = <<CSI, "1", "9", "9", "9", "9", ";", "1", "m">>
    /\ params = <<9999, 1>>
    /\ pc = "Normal"
    /\ _attrs = [DefaultAttrs EXCEPT !.bold = TRUE]

====
